---- MODULE Spec2Model ----
(***************************************************************************)
(* photobooth-s3-sync (src/main.py): FileTracker (the sqlite table         *)
(* `files`) and SimpleSync (startup scan, inotify event loop on the main   *)
(* thread, uploader on a daemon thread), together with the environment     *)
(* they run in: the watched files on disk, the S3 bucket, process kills.   *)
(*                                                                         *)
(* Granularity.  Every access to the disk, to the sqlite table and to S3   *)
(* is one atomic step.  track_file is three steps (stat, SELECT, hash +    *)
(* write): python's sqlite3 opens a transaction only before the first      *)
(* INSERT/UPDATE, so the SELECT of line 62 and the write of line 78/85 are *)
(* separate transactions.  The hash of line 73 and the write that follows  *)
(* are one step: the hash reads only the disk, the write only the table,   *)
(* and no other step of the program or the environment reads what the one  *)
(* writes before the other happens.                                        *)
(***************************************************************************)
EXTENDS Integers, Sequences, FiniteSets, TLC

\* ---------------------------------------------------------------- bounds
MaxContent == 3     \* file contents are 1..MaxContent
MaxMtime   == 2     \* modification times are 1..MaxMtime
MaxEnv     == 2     \* what the environment does after the first start:
                    \*   writes and deletes of files, kills of the process

\* ------------------------------------------------------------ the domain
\* Watched image files, in filepath order (ORDER BY filepath, line 101).
AllPaths == << <<"2024-01-01", "a", ".jpg">>, <<"2024-01-01", "b", ".JPG">> >>
Paths    == {AllPaths[i] : i \in 1..Len(AllPaths)}
NoPath   == <<>>

Contents == 1..MaxContent
Mtimes   == 1..MaxMtime

\* st_size of a file holding content c: two contents may have the same size.
Size(c) == (c + 1) \div 2

NULL   == 0     \* uploaded_at IS NULL
NoHash == 0     \* file_hash not computed
NoRow  == <<>>  \* cursor.fetchone() returned None

\* hashlib.md5 of the bytes (lines 44-49): distinct contents, distinct digests.
FileHash(c) == 1 + ((c * 37) % 101)

\* datetime.now() (line 110): some non-NULL timestamp.
Now == 1

\* s3_key = os.path.join(self.prefix, Path(filepath).name)  (line 156)
S3Key(p) == <<"input/", p[2], p[3]>>
Keys     == {S3Key(p) : p \in Paths}
NoObject == 0

VARIABLES
    disk,      \* the files: path -> [content, mtime], for the paths that exist
    db,        \* table files: filepath -> [size, hash, uploaded_at, mtime]
    s3,        \* the bucket: key -> content of the object (NoObject: none)
    running,   \* self.running
    mpc,       \* main thread: "start","scan","events","tf_stat","tf_select",
               \*   "tf_hash","tf_ret","stopping","exited"
    caller,    \* who called track_file: "scan" or "events"
    all_files, \* startup_scan: the files still to process
    tfPath,    \* track_file: filepath
    tfStat,    \* track_file: <<size, mtime>> from os.stat, <<>> before
    tfRow,     \* track_file: row = <<size, hash, mtime>>, NoRow for None
    tfHash,    \* track_file: file_hash, NoHash while not computed
    ret,       \* track_file: the value returned (at "tf_ret")
    upc,       \* uploader thread: "off","poll","iter","upload","refresh",
               \*   "mark","log","backoff","done"
    pending,   \* uploader: the rest of the batch of get_pending
    cur,       \* uploader: filepath of the loop body
    notify,    \* uploader: outcome of the refresh POST of this upload
    \* ---- history (read by no action's guard or effect on program state)
    sent,      \* path -> successful uploads of the file's present content
               \*   version (reset when the content on disk changes), max 2
    reobs,     \* after the uploader transmitted cur, track_file stored it
               \*   with a new hash, not that of the bytes transmitted
    epoch,     \* path -> what track_file has answered since the content of
               \*   the file last changed: "none" (no call has returned),
               \*   "false" (only False), "true" (True, from a call during
               \*   which the file was not written), "raced" (a call during
               \*   which the file was written has returned, no "true" since)
    tfClean,   \* the file of tfPath was not written during this call
    recov,     \* path -> the kill left the path tracked, pending and not
               \*   uploaded, and the file is unchanged since
    env,       \* writes, deletes and kills so far
    tried,     \* the paths of the present batch the uploader has attempted
    skipped,   \* the paths of the present batch skipped as disappeared
    tfMarked   \* mark_uploaded of tfPath ran between the SELECT and the
               \*   write of this track_file call

prog == <<running, mpc, caller, all_files, tfPath, tfStat, tfRow, tfHash, ret,
          upc, pending, cur, notify>>
hist == <<sent, reobs, epoch, tfClean, recov, env>>
more == <<tried, skipped, tfMarked>>
vars == <<disk, db, s3, prog, hist, more>>

Files == DOMAIN disk
Rows  == DOMAIN db

Exists(p) == p \in Files                                     \* os.path.exists

Row(size, hash, uploaded_at, mtime) ==
    [size |-> size, hash |-> hash, uploaded_at |-> uploaded_at, mtime |-> mtime]

\* f with f[p] = v, p added to the domain when new
Put(f, p, v) == [q \in (DOMAIN f) \cup {p} |-> IF q = p THEN v ELSE f[q]]
Drop(f, p)   == [q \in (DOMAIN f) \ {p} |-> f[q]]

Pending(p)  == p \in Rows /\ db[p].uploaded_at = NULL
Uploaded(p) == p \in Rows /\ db[p].uploaded_at # NULL

\* (variant: a table without the primary key, a path recorded twice)
get_pendingTwice ==
    SelectSeq(AllPaths, LAMBDA p : Pending(p)) \o SelectSeq(AllPaths, LAMBDA p : Pending(p))

\* FileTracker.get_pending
get_pending == SelectSeq(AllPaths, LAMBDA p : Pending(p))

\* sequences listing the set S once each (os.listdir gives any order)
Listings(S) == {s \in UNION {[1..n -> S] : n \in {Cardinality(S)}} :
                    \A i, j \in DOMAIN s : i # j => s[i] # s[j]}

TypeOK ==
    /\ DOMAIN disk \subseteq Paths
    /\ \A p \in Files : disk[p].content \in Contents /\ disk[p].mtime \in Mtimes
    /\ DOMAIN db \subseteq Paths
    /\ s3 \in [Keys -> Contents \cup {NoObject}]
    /\ running \in BOOLEAN
    /\ upc \in {"off", "poll", "iter", "upload", "refresh", "mark", "log", "backoff",
                "done"}
    /\ mpc \in {"start", "scan", "events", "tf_stat", "tf_select", "tf_hash",
                "tf_ret", "stopping", "exited"}

\* The process starts for the first time, on a fresh table and an empty
\* bucket; the watched folder may already hold files.
Init ==
    /\ \E S \in SUBSET Paths :
           disk = [p \in S |-> [content |-> 1, mtime |-> 1]]
    /\ db = << >>
    /\ s3 = [k \in Keys |-> NoObject]
    /\ running = FALSE
    /\ mpc = "start"
    /\ caller = "scan"
    /\ all_files = << >>
    /\ tfPath = NoPath
    /\ tfStat = << >>
    /\ tfRow = NoRow
    /\ tfHash = NoHash
    /\ ret = FALSE
    /\ upc = "off"
    /\ pending = << >>
    /\ cur = NoPath
    /\ notify = "none"
    /\ sent = [p \in Paths |-> 0]
    /\ reobs = FALSE
    /\ epoch = [p \in Paths |-> "none"]
    /\ tfClean = TRUE
    /\ recov = [p \in Paths |-> FALSE]
    /\ env = 0
    /\ tried = {}
    /\ skipped = {}
    /\ tfMarked = FALSE

\* ------------------------------------------------------- the environment
InCall == mpc \in {"tf_select", "tf_hash"}   \* between os.stat and the write

\* A writer leaves content c with modification time m in file p (creation,
\* rewrite, or touch; utime and coarse clocks allow any m).
WriteFile(p, c, m) ==
    /\ UNCHANGED more
    /\ env < MaxEnv
    /\ ~(Exists(p) /\ disk[p] = [content |-> c, mtime |-> m])
    /\ disk' = Put(disk, p, [content |-> c, mtime |-> m])
    /\ env' = env + 1
    /\ LET changed == ~Exists(p) \/ disk[p].content # c IN
         /\ sent' = IF changed THEN [sent EXCEPT ![p] = 0] ELSE sent
         /\ epoch' = IF changed THEN [epoch EXCEPT ![p] = "none"] ELSE epoch
         /\ recov' = IF changed THEN [recov EXCEPT ![p] = FALSE] ELSE recov
    /\ tfClean' = (tfClean /\ ~(InCall /\ tfPath = p))
    /\ UNCHANGED <<db, s3, prog, reobs>>

DeleteFile(p) ==
    /\ UNCHANGED more
    /\ env < MaxEnv
    /\ Exists(p)
    /\ disk' = Drop(disk, p)
    /\ env' = env + 1
    /\ sent' = [sent EXCEPT ![p] = 0]
    /\ epoch' = [epoch EXCEPT ![p] = "none"]
    /\ recov' = [recov EXCEPT ![p] = FALSE]
    /\ tfClean' = (tfClean /\ ~(InCall /\ tfPath = p))
    /\ UNCHANGED <<db, s3, prog, reobs>>

\* The record of p describes the file as it is now.
Current(p) ==
    /\ Exists(p) /\ p \in Rows
    /\ db[p].size = Size(disk[p].content)
    /\ db[p].hash = FileHash(disk[p].content)

\* The process is killed (volatile state is lost, table, disk and bucket
\* stay) and started again.
Crash ==
    /\ tried' = {} /\ skipped' = {} /\ tfMarked' = FALSE
    /\ env < MaxEnv
    /\ env' = env + 1
    /\ running' = FALSE
    /\ mpc' = "start"
    /\ caller' = "scan"
    /\ all_files' = << >>
    /\ tfPath' = NoPath /\ tfStat' = << >> /\ tfRow' = NoRow /\ tfHash' = NoHash
    /\ ret' = FALSE
    /\ upc' = "off" /\ pending' = << >> /\ cur' = NoPath /\ notify' = "none"
    /\ reobs' = FALSE
    /\ tfClean' = TRUE
    /\ recov' = [p \in Paths |-> Pending(p) /\ Current(p) /\ sent[p] = 0]
    /\ UNCHANGED <<disk, db, s3, sent, epoch>>

\* ----------------------------------------------------- FileTracker.track_file
EnterTrack(p, from) ==
    /\ tfPath' = p
    /\ caller' = from
    /\ mpc' = "tf_stat"
    /\ UNCHANGED <<tfStat, tfRow, tfHash, ret>>

\* lines 54-58: os.path.exists, os.stat
TfStat ==
    /\ tfMarked' = FALSE /\ UNCHANGED <<tried, skipped>>
    /\ mpc = "tf_stat"
    /\ IF Exists(tfPath)
         THEN /\ tfStat' = <<Size(disk[tfPath].content), disk[tfPath].mtime>>
              /\ mpc' = "tf_select"
              /\ ret' = ret
         ELSE /\ ret' = FALSE
              /\ mpc' = "tf_ret"
              /\ tfStat' = tfStat
    /\ tfClean' = TRUE
    /\ UNCHANGED <<disk, db, s3, running, caller, all_files, tfPath, tfRow, tfHash,
                   upc, pending, cur, notify, sent, reobs, epoch, recov,
                   env>>

\* (variant: the quick check reads the hash column for the mtime)
QuickUnchangedWrongColumn(row, stat) ==
    row # NoRow /\ row[1] = stat[1] /\ row[2] = stat[2]

\* line 69: row and row[0] == size and row[2] == mtime
QuickUnchanged(row, stat) == row # NoRow /\ row[1] = stat[1] /\ row[3] = stat[2]

\* epoch, after a call that returns r now, the file being there
Answered(r) ==
    [epoch EXCEPT ![tfPath] =
        IF ~Exists(tfPath) \/ @ = "true" THEN @
        ELSE IF r /\ tfClean THEN "true"
        ELSE IF ~tfClean \/ @ = "raced" THEN "raced"
        ELSE "false"]

\* lines 62-70: SELECT size, hash, mtime; the quick check
TfSelect ==
    /\ UNCHANGED more
    /\ mpc = "tf_select"
    /\ LET row == IF tfPath \in Rows
                    THEN <<db[tfPath].size, db[tfPath].hash, db[tfPath].mtime>>
                    ELSE NoRow IN
         /\ tfRow' = row
         /\ IF QuickUnchanged(row, tfStat)
              THEN ret' = FALSE /\ mpc' = "tf_ret" /\ epoch' = Answered(FALSE)
              ELSE ret' = ret /\ mpc' = "tf_hash" /\ epoch' = epoch
    /\ UNCHANGED <<disk, db, s3, running, caller, all_files, tfPath, tfStat, tfHash,
                   upc, pending, cur, notify, sent, reobs, tfClean, recov,
                   env>>

\* (variant: a changed mtime alone makes the file changed)
SameContentAndMtime(row, stat, h) ==
    row # NoRow /\ row[1] = stat[1] /\ row[2] = h /\ row[3] = stat[2]

\* line 76: row and row[0] == size and row[1] == file_hash
SameContent(row, stat, h) == row # NoRow /\ row[1] = stat[1] /\ row[2] = h

\* (variant: the mtime update also clears uploaded_at)
UpdateMtimeResets(table, p, mtime) ==
    IF p \in DOMAIN table
      THEN [table EXCEPT ![p].mtime = mtime, ![p].uploaded_at = NULL]
      ELSE table

\* lines 78-81: UPDATE files SET mtime = ? WHERE filepath = ?
UpdateMtime(table, p, mtime) ==
    IF p \in DOMAIN table THEN [table EXCEPT ![p].mtime = mtime] ELSE table

\* (variant: the upsert keeps the uploaded_at of the row it replaces)
UpsertKeepsUploadedAt(table, p, size, h, mtime) ==
    Put(table, p, Row(size, h, IF p \in DOMAIN table THEN table[p].uploaded_at ELSE NULL,
                      mtime))

\* lines 85-88: INSERT OR REPLACE ... VALUES (?, ?, ?, NULL, ?)
InsertOrReplace(table, p, size, h, mtime) == Put(table, p, Row(size, h, NULL, mtime))

\* (variant: the update is never committed)
mark_uploadedLost(table, p) == table

\* (variant: the update also stamps the mtime column)
mark_uploadedStampsMtime(table, p) ==
    IF p \in DOMAIN table
      THEN [table EXCEPT ![p].uploaded_at = Now, ![p].mtime = Now]
      ELSE table

\* FileTracker.mark_uploaded, lines 107-111: UPDATE files SET uploaded_at = ? WHERE filepath = ?
mark_uploaded(table, p) ==
    IF p \in DOMAIN table THEN [table EXCEPT ![p].uploaded_at = Now] ELSE table

\* The uploader has transmitted cur and has not yet marked it.
Transmitted == upc \in {"refresh", "mark"}

\* lines 73-91 (an open() that fails is caught at line 93)
TfHash ==
    /\ UNCHANGED more
    /\ mpc = "tf_hash"
    /\ mpc' = "tf_ret"
    /\ IF ~Exists(tfPath)
         THEN /\ ret' = FALSE
              /\ UNCHANGED <<db, tfHash, reobs, epoch>>
         ELSE LET h == FileHash(disk[tfPath].content) IN
              /\ tfHash' = h
              /\ IF SameContent(tfRow, tfStat, h)
                   THEN /\ db' = UpdateMtime(db, tfPath, tfStat[2])
                        /\ ret' = FALSE
                        /\ epoch' = Answered(FALSE)
                        /\ reobs' = reobs
                   ELSE /\ db' = InsertOrReplace(db, tfPath, tfStat[1], h, tfStat[2])
                        /\ ret' = TRUE
                        /\ epoch' = Answered(TRUE)
                        /\ reobs' = (reobs \/ (/\ Transmitted /\ cur = tfPath
                                               /\ tfRow # NoRow /\ tfRow[2] # h
                                               /\ h # FileHash(s3[S3Key(cur)])))
    /\ UNCHANGED <<disk, s3, running, caller, all_files, tfPath, tfStat, tfRow,
                   upc, pending, cur, notify, sent, tfClean, recov, env>>

\* track_file has returned ret to its caller
TfReturn ==
    /\ tfMarked' = FALSE /\ UNCHANGED <<tried, skipped>>
    /\ mpc = "tf_ret"
    /\ mpc' = caller
    /\ tfPath' = NoPath /\ tfStat' = << >> /\ tfRow' = NoRow /\ tfHash' = NoHash
    /\ ret' = FALSE
    /\ UNCHANGED <<disk, db, s3, running, caller, all_files, upc, pending, cur,
                   notify, hist>>

\* ------------------------------------------------- SimpleSync.startup_scan
\* lines 210-220: the .jpg files of the date folders, in listing order
StartScan ==
    /\ UNCHANGED more
    /\ mpc = "start"
    /\ all_files' \in Listings(Files)
    /\ mpc' = "scan"
    /\ UNCHANGED <<disk, db, s3, running, caller, tfPath, tfStat, tfRow, tfHash, ret,
                   upc, pending, cur, notify, hist>>

\* lines 226-227: the next file of the scan
ScanNext ==
    /\ UNCHANGED more
    /\ mpc = "scan"
    /\ all_files # << >>
    /\ EnterTrack(Head(all_files), "scan")
    /\ all_files' = Tail(all_files)
    /\ UNCHANGED <<disk, db, s3, running, upc, pending, cur, notify, hist>>

\* lines 234-252: the scan is over; run starts the uploader and the watcher
ScanDone ==
    /\ UNCHANGED more
    /\ mpc = "scan"
    /\ all_files = << >>
    /\ running' = TRUE
    /\ upc' = "poll"
    /\ mpc' = "events"
    /\ UNCHANGED <<disk, db, s3, caller, all_files, tfPath, tfStat, tfRow, tfHash,
                   ret, pending, cur, notify, hist>>

\* ---------------------------------------------------- SimpleSync.run, events
Dirs      == {"2024-01-01", "thumbs"}
Filenames == {<<"a", ".jpg">>, <<"b", ".JPG">>, <<"a", ".txt">>}
TypeNames == {{"IN_MODIFY"}, {"IN_CLOSE_WRITE"}}
None      == << >>
\* an event that is not the tuple (header, type_names, watch_path, filename)
\* of line 261, or whose filename is not a str
Malformed == <<"malformed">>
Events    == {None, Malformed} \cup
             {<<{"IN_CLOSE_WRITE"}, d, f>> : d \in Dirs, f \in Filenames} \cup
             {<<t, "2024-01-01", <<"a", ".jpg">> >> : t \in TypeNames}

Lower(ext) == IF ext = ".JPG" THEN ".jpg" ELSE ext           \* str.lower
\* re.match(PICTURES_FOLDER_REGEX, name), line 18
IsPicturesFolder(name) == name \in {"2024-01-01"}

\* lines 263-265
Qualifies(ev) ==
    /\ "IN_CLOSE_WRITE" \in ev[1]
    /\ Lower(ev[3][2]) = ".jpg"
    /\ IsPicturesFolder(ev[2])

\* os.path.join(watch_path, filename), line 267
EventPath(ev) == <<ev[2], ev[3][1], ev[3][2]>>

\* lines 254-268: one event of watcher.event_gen().  Unpacking or testing a
\* malformed event raises (ValueError, AttributeError, TypeError): line 270
\* catches KeyboardInterrupt only, so the exception leaves run through the
\* finally of line 272.
Event(ev) ==
    /\ UNCHANGED more
    /\ mpc = "events"
    /\ running
    /\ IF ev = Malformed
         THEN /\ running' = FALSE
              /\ mpc' = "stopping"
              /\ UNCHANGED <<caller, tfPath, tfStat, tfRow, tfHash, ret>>
         ELSE /\ running' = running
              /\ IF ev # None /\ Qualifies(ev)
                   THEN EnterTrack(EventPath(ev), "events")
                   ELSE UNCHANGED <<mpc, caller, tfPath, tfStat, tfRow, tfHash, ret>>
    /\ UNCHANGED <<disk, db, s3, all_files, upc, pending, cur, notify, hist>>

\* lines 270-273: KeyboardInterrupt in the event loop; finally: running = False
Interrupt ==
    /\ tfMarked' = FALSE /\ UNCHANGED <<tried, skipped>>
    /\ mpc \in {"events", "tf_stat", "tf_select", "tf_hash", "tf_ret"}
    /\ running
    /\ running' = FALSE
    /\ mpc' = "stopping"
    /\ tfPath' = NoPath /\ tfStat' = << >> /\ tfRow' = NoRow /\ tfHash' = NoHash
    /\ ret' = FALSE
    /\ UNCHANGED <<disk, db, s3, caller, all_files, upc, pending, cur, notify, hist>>

\* run and main return: the interpreter exits and the daemon thread (line 246)
\* ends with it, wherever it is
Exit ==
    /\ tried' = {} /\ skipped' = {} /\ tfMarked' = tfMarked
    /\ mpc = "stopping"
    /\ mpc' = "exited"
    /\ upc' = "off" /\ pending' = << >> /\ cur' = NoPath /\ notify' = "none"
    /\ reobs' = FALSE
    /\ UNCHANGED <<disk, db, s3, running, caller, all_files, tfPath, tfStat, tfRow,
                   tfHash, ret, sent, epoch, tfClean, recov, env>>

\* ------------------------------------------------ SimpleSync._uploader_thread
\* lines 175-181: while self.running; get_pending; sleep when there is none
UpPoll ==
    /\ IF running THEN tried' = {} /\ skipped' = {}
                  ELSE UNCHANGED <<tried, skipped>>
    /\ tfMarked' = tfMarked
    /\ upc = "poll"
    /\ IF ~running
         THEN upc' = "done" /\ pending' = pending
         ELSE /\ pending' = get_pending
              /\ upc' = IF get_pending = << >> THEN "poll" ELSE "iter"
    /\ UNCHANGED <<disk, db, s3, running, mpc, caller, all_files, tfPath, tfStat,
                   tfRow, tfHash, ret, cur, notify, hist>>

\* (variant: no os.path.exists before the upload)
UpIterNoExistsCheck ==
    /\ tfMarked' = tfMarked
    /\ upc = "iter"
    /\ IF pending = << >>
         THEN upc' = "poll" /\ UNCHANGED <<pending, cur, reobs, tried, skipped>>
         ELSE IF ~running
           THEN /\ upc' = "poll" /\ pending' = << >>
                /\ UNCHANGED <<cur, reobs, tried, skipped>>
           ELSE /\ upc' = "upload"
                /\ cur' = Head(pending)
                /\ pending' = Tail(pending)
                /\ reobs' = FALSE
                /\ tried' = tried \cup {Head(pending)}
                /\ skipped' = skipped
    /\ UNCHANGED <<disk, db, s3, running, mpc, caller, all_files, tfPath, tfStat,
                   tfRow, tfHash, ret, notify, sent, epoch, tfClean, recov,
                   env>>

\* lines 183-189: the next filepath of the batch
UpIter ==
    /\ tfMarked' = tfMarked
    /\ upc = "iter"
    /\ IF pending = << >>
         THEN upc' = "poll" /\ UNCHANGED <<pending, cur, reobs, tried, skipped>>
         ELSE IF ~running
           THEN /\ upc' = "poll" /\ pending' = << >>
                /\ UNCHANGED <<cur, reobs, tried, skipped>>
           ELSE IF ~Exists(Head(pending))
             THEN /\ upc' = "iter" /\ pending' = Tail(pending)
                  /\ skipped' = skipped \cup {Head(pending)}
                  /\ UNCHANGED <<cur, reobs, tried>>
             ELSE /\ upc' = "upload"
                  /\ cur' = Head(pending)
                  /\ pending' = Tail(pending)
                  /\ reobs' = FALSE
                  /\ tried' = tried \cup {Head(pending)}
                  /\ skipped' = skipped
    /\ UNCHANGED <<disk, db, s3, running, mpc, caller, all_files, tfPath, tfStat,
                   tfRow, tfHash, ret, notify, sent, epoch, tfClean, recov,
                   env>>

\* line 159 succeeds: the object now holds the bytes the file has
UploadOk ==
    /\ UNCHANGED more
    /\ upc = "upload"
    /\ Exists(cur)
    /\ s3' = [s3 EXCEPT ![S3Key(cur)] = disk[cur].content]
    /\ sent' = [sent EXCEPT ![cur] = IF @ < 2 THEN @ + 1 ELSE @]
    /\ upc' = "refresh"
    /\ UNCHANGED <<disk, db, running, mpc, caller, all_files, tfPath, tfStat, tfRow,
                   tfHash, ret, pending, cur, notify, reobs, epoch, tfClean,
                   recov, env>>

\* (variant: a failed upload is marked uploaded all the same)
UploadFailMarks ==
    /\ UNCHANGED more
    /\ upc = "upload"
    /\ upc' = "backoff"
    /\ db' = mark_uploaded(db, cur)
    /\ UNCHANGED <<disk, s3, running, mpc, caller, all_files, tfPath, tfStat,
                   tfRow, tfHash, ret, pending, cur, notify, hist>>

\* line 159 raises (network, or the file is gone): lines 169-171, then 195
UploadFail ==
    /\ UNCHANGED more
    /\ upc = "upload"
    /\ upc' = "backoff"
    /\ UNCHANGED <<disk, db, s3, running, mpc, caller, all_files, tfPath, tfStat,
                   tfRow, tfHash, ret, pending, cur, notify, hist>>

\* (variant: a failed upload breaks out of the batch)
BackoffBreaks ==
    /\ UNCHANGED more
    /\ upc = "backoff"
    /\ upc' = "poll"
    /\ cur' = NoPath
    /\ pending' = << >>
    /\ UNCHANGED <<disk, db, s3, running, mpc, caller, all_files, tfPath, tfStat,
                   tfRow, tfHash, ret, notify, hist>>

\* line 195: time.sleep(5), and on to the next filepath
Backoff ==
    /\ UNCHANGED more
    /\ upc = "backoff"
    /\ upc' = "iter"
    /\ cur' = NoPath
    /\ UNCHANGED <<disk, db, s3, running, mpc, caller, all_files, tfPath, tfStat,
                   tfRow, tfHash, ret, pending, notify, hist>>

\* (variant: the exception of the refresh POST reaches line 169)
RefreshFails(outcome) ==
    /\ UNCHANGED more
    /\ upc = "refresh"
    /\ notify' = outcome
    /\ upc' = IF outcome = "failed" THEN "backoff" ELSE "mark"
    /\ UNCHANGED <<disk, db, s3, running, mpc, caller, all_files, tfPath, tfStat,
                   tfRow, tfHash, ret, pending, cur, hist>>

\* lines 162-167: the refresh POST, whose exception is only logged
Refresh(outcome) ==
    /\ UNCHANGED more
    /\ upc = "refresh"
    /\ notify' = outcome
    /\ upc' = "mark"
    /\ UNCHANGED <<disk, db, s3, running, mpc, caller, all_files, tfPath, tfStat,
                   tfRow, tfHash, ret, pending, cur, hist>>

\* line 192
UpMark ==
    /\ tfMarked' = (tfMarked \/ (mpc = "tf_hash" /\ tfPath = cur))
    /\ UNCHANGED <<tried, skipped>>
    /\ upc = "mark"
    /\ db' = mark_uploaded(db, cur)
    /\ upc' = "log"
    /\ UNCHANGED <<disk, s3, running, mpc, caller, all_files, tfPath, tfStat, tfRow,
                   tfHash, ret, pending, cur, notify, hist>>

\* line 193, and on to the next filepath
UpLog ==
    /\ UNCHANGED more
    /\ upc = "log"
    /\ upc' = "iter"
    /\ cur' = NoPath
    /\ notify' = "none"
    /\ reobs' = FALSE
    /\ UNCHANGED <<disk, db, s3, running, mpc, caller, all_files, tfPath, tfStat,
                   tfRow, tfHash, ret, pending, sent, epoch, tfClean, recov,
                   env>>

\* ---------------------------------------------------------- specification
\* What the environment does, the files it writes being those of W.
Env(W) ==
    \/ \E p \in W, c \in Contents, m \in Mtimes : WriteFile(p, c, m)
    \/ \E p \in W : DeleteFile(p)
    \/ Crash

\* The steps of the main thread.
Main ==
    \/ StartScan
    \/ ScanNext
    \/ ScanDone
    \/ \E ev \in Events : Event(ev)
    \/ Interrupt
    \/ Exit
    \/ TfStat
    \/ TfSelect
    \/ TfHash
    \/ TfReturn

\* The steps of the uploader thread.
Uploader ==
    \/ UpPoll
    \/ UpIter
    \/ UploadOk
    \/ UploadFail
    \/ Backoff
    \/ \E outcome \in {"ok", "failed"} : Refresh(outcome)
    \/ UpMark
    \/ UpLog

Next == Env(Paths) \/ Main \/ Uploader

Spec == Init /\ [][Next]_vars

\* The same program where only the first file is ever written to the folder.
OnePath == {AllPaths[1]}
InitOne == Init /\ DOMAIN disk \subseteq OnePath
NextOne == Env(OnePath) \/ Main \/ Uploader

SpecOne == InitOne /\ [][NextOne]_vars

\* Scheduling: the main thread goes on with the scan and with a track_file
\* call it has begun, the uploader thread goes on with its loop, and an upload
\* that is attempted again and again succeeds in the end.
Fairness ==
    /\ WF_vars(StartScan \/ ScanNext \/ ScanDone \/ TfStat \/ TfSelect \/ TfHash
                   \/ TfReturn)
    /\ WF_vars(UpPoll \/ UpIter \/ Backoff
                   \/ (\E outcome \in {"ok", "failed"} : Refresh(outcome))
                   \/ UpMark \/ UpLog)
    /\ SF_vars(UploadOk)

SpecOneFair == SpecOne /\ Fairness

\* The program with both files, where the environment only removes files and
\* kills the process.
NextTwo == (\E p \in Paths : DeleteFile(p)) \/ Crash \/ Main \/ Uploader

SpecTwo == Init /\ [][NextTwo]_vars

\* Scheduling alone: each of the two threads goes on taking its steps (an
\* upload that is attempted ends, in success or in failure).
ThreadsRun ==
    /\ WF_vars(StartScan \/ ScanNext \/ ScanDone \/ TfStat \/ TfSelect \/ TfHash
                   \/ TfReturn)
    /\ WF_vars(Uploader)

SpecTwoFair == SpecTwo /\ ThreadsRun

\* ================================================================ claims
\* The object the bucket holds for p: the bytes of the last successful upload of p.
LastSent(p) == s3[S3Key(p)]

\* A step of the main thread in which track_file returns.
TrackReturns == mpc \in {"tf_stat", "tf_select", "tf_hash"} /\ mpc' = "tf_ret"

\* C1: when track_file stores the path as changed after the uploader has
\* transmitted it and before mark_uploaded, the mark is discarded: once
\* mark_uploaded has returned the record is still pending.
C1_MarkDiscarded == (upc = "log" /\ reobs) => Pending(cur)

\* C2: no content version of a file is uploaded successfully more than once
\* (duplicate events, failed uploads, kills and restarts included).
C2_UploadedExactlyOnce == \A p \in Paths : sent[p] <= 1

\* C3: every record marked uploaded carries the size and the hash of the
\* bytes the last successful upload of its path transmitted.
C3_UploadedRecordIsWhatWasSent ==
    \A p \in Rows :
        db[p].uploaded_at # NULL =>
            /\ LastSent(p) # NoObject
            /\ db[p].size = Size(LastSent(p))
            /\ db[p].hash = FileHash(LastSent(p))

\* C4 as claimed: whenever track_file returns for a tracked path whose file
\* content is not the recorded one, it returns True and the record holds the
\* file's size, mtime and hash with uploaded_at NULL.
C4_ChangedContentIsPending ==
    [][(/\ TrackReturns
        /\ tfPath \in Rows /\ Exists(tfPath)
        /\ db[tfPath].hash # FileHash(disk[tfPath].content))
       => (/\ ret'
           /\ db'[tfPath] = Row(Size(disk[tfPath].content),
                                FileHash(disk[tfPath].content), NULL,
                                disk[tfPath].mtime))]_vars

\* C4 amended: the same, for the calls whose os.stat did not find the stored
\* size and the stored mtime both (with the size and mtime of that os.stat);
\* a call that finds both returns False and leaves the table as it is.
C4_ChangedContentIsPendingUnlessQuick ==
    [][(/\ TrackReturns
        /\ tfStat # << >>
        /\ tfPath \in Rows /\ Exists(tfPath)
        /\ db[tfPath].hash # FileHash(disk[tfPath].content))
       => IF db[tfPath].size = tfStat[1] /\ db[tfPath].mtime = tfStat[2]
            THEN ~ret' /\ db' = db
            ELSE /\ ret'
                 /\ db'[tfPath] = Row(tfStat[1], FileHash(disk[tfPath].content), NULL,
                                      tfStat[2])
                 /\ tfClean => tfStat = <<Size(disk[tfPath].content),
                                          disk[tfPath].mtime>>]_vars

C4_Witness ==
    /\ mpc = "tf_ret" /\ ret
    /\ tfRow # NoRow /\ tfRow[2] # tfHash
    /\ LastSent(tfPath) # NoObject /\ tfRow[2] = FileHash(LastSent(tfPath))
    /\ Pending(tfPath) /\ db[tfPath].hash = tfHash

\* C5 as claimed: while the content of the file stays the same, the first
\* call that observes it returns True and every later one returns False
\* (calls during which the file is not written, no earlier call having
\* overlapped a write of this content).
C5_TrueOncePerContent ==
    [][(TrackReturns /\ tfClean /\ Exists(tfPath) /\ epoch[tfPath] # "raced")
       => (ret' <=> epoch[tfPath] = "none")]_vars

\* C5 amended: once a call has returned True, no later call returns True
\* while the content stays the same (whatever happens to the mtime and to
\* uploaded_at), and a call for a path without a record whose file is there
\* returns True.
C5_TrueOncePerUnchangedContent ==
    [][TrackReturns
       => /\ (ret' => epoch[tfPath] # "true")
          /\ (mpc = "tf_hash" /\ tfPath \notin Rows /\ Exists(tfPath) => ret')]_vars

C5_Witness ==
    /\ mpc = "tf_ret" /\ ~ret
    /\ epoch[tfPath] = "true"
    /\ tfHash # NoHash /\ tfRow # NoRow /\ tfRow[3] # tfStat[2]

\* C6: a call that finds the stored size and the stored mtime equal to those
\* of os.stat returns False, computes no hash and leaves the table unchanged.
C6_QuickCheckSkipsHash ==
    [][(/\ mpc = "tf_select" /\ mpc' \in {"tf_hash", "tf_ret"}
        /\ tfPath \in Rows
        /\ db[tfPath].size = tfStat[1] /\ db[tfPath].mtime = tfStat[2])
       => (mpc' = "tf_ret" /\ ~ret' /\ tfHash' = NoHash /\ db' = db)]_vars

C6_Witness ==
    /\ mpc = "tf_ret" /\ ~ret /\ tfHash = NoHash
    /\ tfRow # NoRow /\ tfRow[1] = tfStat[1] /\ tfRow[3] = tfStat[2]
    /\ Uploaded(tfPath)

\* C7: a call that finds another mtime stored, with the stored size that of
\* os.stat and the stored hash that of the content, returns False and changes
\* nothing in the table but the mtime of that record.
C7_TouchUpdatesOnlyMtime ==
    [][(/\ mpc = "tf_hash" /\ mpc' = "tf_ret"
        /\ tfPath \in Rows /\ Exists(tfPath)
        /\ db[tfPath].mtime # tfStat[2]
        /\ db[tfPath].size = tfStat[1]
        /\ db[tfPath].hash = FileHash(disk[tfPath].content))
       => (~ret' /\ db' = [db EXCEPT ![tfPath].mtime = tfStat[2]])]_vars

C7_Witness ==
    /\ mpc = "tf_ret" /\ ~ret
    /\ tfHash # NoHash /\ tfRow # NoRow /\ tfRow[3] # tfStat[2]
    /\ Uploaded(tfPath) /\ db[tfPath].mtime = tfStat[2]
    /\ \E q \in Rows : q # tfPath

\* A path that a kill left tracked, pending and not yet uploaded, its file
\* unchanged since, stays pending until it is uploaded and is uploaded at most
\* once.
RecoveredAtMostOnce ==
    \A p \in Paths :
        recov[p] => /\ sent[p] <= 1
                    /\ p \in Rows
                    /\ sent[p] = 0 => Pending(p)

\* The process has been interrupted (Ctrl-C) and uploads no more.
Stopped == mpc \in {"stopping", "exited"}

\* C8: a path that a kill left tracked, pending and not yet uploaded, its file
\* unchanged since, stays pending until it is uploaded, is uploaded at most
\* once, and is uploaded unless the file is rewritten or removed or the
\* process is interrupted first.
C8_UploadedOnceAfterRestart ==
    /\ []RecoveredAtMostOnce
    /\ \A p \in Paths :
          (recov[p] /\ sent[p] = 0) ~> (sent[p] = 1 \/ ~recov[p] \/ Stopped)

C8_Witness ==
    \E p \in Paths : recov[p] /\ sent[p] = 1 /\ Uploaded(p) /\ upc = "poll"

\* C9: a failed upload leaves the table as it is, with the record of the path
\* pending; uploaded_at goes from NULL to non-NULL only in mark_uploaded of
\* the path the uploader has just uploaded; and after a failed upload the path
\* is attempted again, unless its file is removed or the process is
\* interrupted first.
C9_FailedUploadKeepsPending ==
    /\ [][/\ (upc = "upload" /\ upc' = "backoff")
                => (db' = db /\ cur \in DOMAIN db' /\ db'[cur].uploaded_at = NULL)
           /\ \A p \in Paths :
                (~Uploaded(p) /\ p \in DOMAIN db' /\ db'[p].uploaded_at # NULL)
                    => (upc = "mark" /\ cur = p /\ LastSent(p) # NoObject)]_vars
    /\ \A p \in Paths :
          (upc = "backoff" /\ cur = p)
              ~> ((upc = "upload" /\ cur = p) \/ ~Exists(p) \/ Stopped)

C9_Witness == upc = "backoff" /\ Pending(cur) /\ Exists(cur)

\* C10: whatever the outcome of the refresh POST, _upload_file returns True
\* (the uploader goes on to mark_uploaded, table and bucket untouched) and
\* mark_uploaded leaves the record with uploaded_at non-NULL.
C10_RefreshFailureIsHarmless ==
    [][/\ (upc = "refresh" /\ upc' \notin {"refresh", "off"})
            => (upc' = "mark" /\ cur' = cur /\ db' = db /\ s3' = s3)
       /\ (upc = "mark" /\ upc' = "log")
            => (cur \in DOMAIN db' /\ db'[cur].uploaded_at # NULL)]_vars

C10_Witness == upc = "log" /\ notify = "failed" /\ Uploaded(cur)

\* Sequence s holds no path twice.
NoDuplicate(s) == \A i, j \in DOMAIN s : i # j => s[i] # s[j]

\* C11: get_pending returns no path twice, whatever track_file was called
\* with, and within one batch of get_pending the uploader attempts the upload
\* of a path at most once (the table, a function of filepath as the primary
\* key of line 29 makes it, holds one record for a path).
C11_OneAttemptPerBatch ==
    /\ [](NoDuplicate(get_pending) /\ NoDuplicate(pending))
    /\ [][(upc = "iter" /\ upc' = "upload")
            => (cur' \notin tried /\ tried' = tried \cup {cur'})]_vars

C11_Witness ==
    /\ upc = "upload" /\ tried = Paths
    /\ mpc = "tf_ret" /\ caller = "events" /\ tfPath = cur /\ ~ret
    /\ Pending(cur)

\* The uploader has an upload in flight, or has not yet recorded its outcome.
InFlight == upc \in {"upload", "refresh", "mark"}

\* C12: the process does not terminate while the uploader has an upload in
\* flight or has not yet recorded its outcome.
C12_ExitWaitsForUpload ==
    [][(mpc = "stopping" /\ mpc' = "exited") => ~InFlight]_vars

\* The file of p (an image of a date folder) is there and has no record.
Untracked(p) == Exists(p) /\ p \notin Rows

\* C13: as long as the event loop goes on processing events (track_file is
\* called again and again), a file that is there without a record while the
\* loop waits for events comes to be tracked, unless it is removed or the
\* process stops first.
C13_DroppedEventIsRecovered ==
    \A p \in Paths :
        []<>(mpc = "tf_stat")
            => ((Untracked(p) /\ mpc = "events") ~> (p \in Rows \/ ~Exists(p) \/ Stopped))

\* C14: a step of track_file for a path whose file is not there writes
\* nothing and, if the call returns, it returns False; the uploader, meeting
\* such a path at the head of its batch, goes on to the next path with the
\* table and the bucket as they are and no upload attempted; and an object is
\* only ever written from a file that is there.
C14_MissingFileChangesNothing ==
    [][/\ (/\ mpc \in {"tf_stat", "tf_select", "tf_hash"} /\ mpc' # mpc
            /\ ~Exists(tfPath))
          => (db' = db /\ s3' = s3 /\ (mpc' = "tf_ret" => ~ret'))
       /\ (/\ upc = "iter" /\ upc' # "off" /\ <<upc, pending>>' # <<upc, pending>>
            /\ running /\ pending # << >> /\ ~Exists(Head(pending)))
          => (/\ upc' = "iter" /\ pending' = Tail(pending)
              /\ Head(pending) \notin tried'
              /\ db' = db /\ s3' = s3)
       /\ \A p \in Paths :
            s3'[S3Key(p)] # s3[S3Key(p)] => (Exists(p) /\ cur = p)]_vars

C14_Witness ==
    /\ mpc = "tf_ret" /\ ~ret /\ tfStat = << >>
    /\ tfPath \in skipped /\ Pending(tfPath) /\ ~Exists(tfPath)
    /\ upc = "upload" /\ cur \notin skipped

\* An event the loop is to skip: null, malformed, or not qualifying.
Skipped(ev) == ev \in {None, Malformed} \/ ~Qualifies(ev)

\* C15: processing a null, malformed or non-qualifying event changes no
\* record and leaves the event loop running, ready for the next event.
C15_LoopSurvivesBadEvents ==
    [][(\E ev \in Events : Skipped(ev) /\ Event(ev))
       => (db' = db /\ running' /\ mpc' = "events")]_vars

\* What the SELECT of lines 62-66 returns on table for p.
Select(table, p) ==
    IF p \in DOMAIN table THEN <<table[p].size, table[p].hash, table[p].mtime>>
                          ELSE NoRow

\* The table after a track_file of p that reads and writes table in one
\* step, os.stat having given stat and the hash being h.
TrackAtOnce(table, p, stat, h) ==
    IF SameContent(Select(table, p), stat, h)
      THEN UpdateMtime(table, p, stat[2])
      ELSE InsertOrReplace(table, p, stat[1], h, stat[2])

\* The write of a track_file call that finds its file.
TrackWrites == mpc = "tf_hash" /\ mpc' = "tf_ret" /\ Exists(tfPath)

\* C16 as claimed: a mark_uploaded of the path that completed between the
\* SELECT and the write of a track_file call is not overwritten by that
\* write: the record is still marked uploaded after it.
C16_MarkNotOverwritten ==
    [][(TrackWrites /\ tfMarked /\ Uploaded(tfPath))
       => db'[tfPath].uploaded_at # NULL]_vars

\* C16 amended: the row track_file has read is the row of the table up to its
\* write, whatever mark_uploaded does in between, and its write leaves the
\* table as a track_file placed wholly after that mark_uploaded leaves it
\* (the serial order mark_uploaded, track_file): the mark is kept by the
\* mtime update and reset to NULL by INSERT OR REPLACE.
C16_AsMarkThenTrack ==
    /\ [](mpc = "tf_hash" => tfRow = Select(db, tfPath))
    /\ [][TrackWrites
           => /\ db' = TrackAtOnce(db, tfPath, tfStat, FileHash(disk[tfPath].content))
              /\ (ret' => db'[tfPath].uploaded_at = NULL)
              /\ (~ret' => db'[tfPath].uploaded_at = db[tfPath].uploaded_at)]_vars

C16_Witness ==
    /\ mpc = "tf_ret" /\ tfMarked /\ ret
    /\ upc = "log" /\ cur = tfPath /\ Pending(tfPath)

\* C17: when the refresh notification of an upload has been attempted
\* (whatever its outcome), the record of the uploaded path is already marked
\* uploaded.
C17_MarkedBeforeRefresh == notify # "none" => Uploaded(cur)

\* C18: if the upload of p succeeds when it is attempted (again and again),
\* then p, pending with its file there while the process runs, comes to be
\* marked uploaded unless the file is removed or the process stops first,
\* whatever happens to the uploads of the other paths.
C18_ErrorsAreIsolated ==
    \A p \in Paths :
        SF_vars(UploadOk /\ cur = p)
            => ((Pending(p) /\ Exists(p) /\ running)
                    ~> (Uploaded(p) \/ ~Exists(p) \/ ~running))

C18_Witness ==
    /\ upc = "log" /\ cur = AllPaths[2] /\ Uploaded(cur)
    /\ AllPaths[1] \in tried
    /\ Pending(AllPaths[1]) /\ Exists(AllPaths[1])

\* C19: every record holds the size and the hash of one and the same content.
C19_SizeAndHashOfOneContent ==
    \A p \in Rows :
        \E c \in Contents : db[p].size = Size(c) /\ db[p].hash = FileHash(c)

\* Nothing is left to do: the event loop waits for events, the uploader polls
\* and finds nothing pending, and for every file the write-complete event of
\* its present content has been processed (track_file has returned True for
\* it) and the record holds its size, its mtime and its hash, so that every
\* further track_file call returns False at line 70 (or at line 55).  While
\* the files stay as they are the table and the bucket stay as they are.
Settled ==
    /\ mpc = "events" /\ running /\ upc = "poll"
    /\ get_pending = << >>
    /\ \A p \in Files : /\ epoch[p] = "true"
                        /\ Current(p) /\ db[p].mtime = disk[p].mtime

\* Nothing is pending and the bucket holds, for every tracked path whose file
\* is there, the content of the file.
Converged ==
    /\ get_pending = << >>
    /\ \A p \in Rows \cap Files : LastSent(p) = disk[p].content

\* C20: the system converges; so a state where nothing is left to do and
\* every record describes its file, which the program does not leave while
\* the files stay as they are, is a converged state.
C20_SettledIsConverged == Settled => Converged

====
